---- MODULE Spec2Model ----
(***************************************************************************)
(* The type-resolution and build-cache dispatch layer of dune.istl         *)
(* (python/dune/istl/__init__.py): the entry points BCRSMatrix,            *)
(* bcrsMatrix, BlockVector, blockVector, MatrixIndexSet, matrixAdapter and *)
(* getSolverFromFactory, called by concurrent callers, in front of the     *)
(* generator's load (build cache + external builder).                      *)
(*                                                                         *)
(* Descriptors, dependency identifiers and cache keys are the strings the  *)
(* Python code builds.  A dependency list handed to load is kept as the    *)
(* set of its elements (the builder's dependency set); the order of a      *)
(* list matters only where the code hashes it (getSolverFromFactory).      *)
(***************************************************************************)
EXTENDS Integers, Sequences, FiniteSets, TLC

\* ----------------------------------------------------------------- bounds
\* largest block row / column count and block size a request names
MaxBlock == 2
\* number of requests the callers issue in one behaviour
MaxCalls == 2

\* ------------------------------------------------------------ input sets
Callers == {1, 2}

\* a block type given as a list [rows, cols]: no cppTypeName attribute
ListBlock(r, c) ==
    [hasName |-> FALSE, cppTypeName |-> "", items |-> <<r, c>>, rows |-> r, cols |-> c]

\* a block type object exposing cppTypeName; items is what blockType[0] and
\* blockType[1] return, <<>> when the object cannot be indexed
ObjBlock(name, items, r, c) ==
    [hasName |-> TRUE, cppTypeName |-> name, items |-> items, rows |-> r, cols |-> c]

BlockLists == {ListBlock(r, c) : r \in 0..MaxBlock, c \in 0..MaxBlock}

BlockObjects ==
    { ObjBlock("Dune::FieldMatrix< double, 1, 1 >", <<>>, 1, 1),
      ObjBlock("Dune::FieldMatrix< double, 2, 2 >", <<2, 2>>, 2, 2) }

BlockTypes == BlockLists \cup BlockObjects

Sizes == {0, 3}

\* solver configurations as in the test script, told apart by their type entry
Configs == {"cgsolver", "cholmod"}

\* the custom includes a caller may pass to getSolverFromFactory
ExtraIncludes == {"dune/istl/solvers.hh", "dune/istl/cholmod.hh"}

\* the exceptions a failing build may raise in the calling thread
FailureKinds == {"BuildFailure", "AttributeError"}

\* --------------------------------------------------------------- helpers
Range(s) == {s[i] : i \in DOMAIN s}

\* every enumeration order of a set: the orders in which Python may iterate it
Enumerations(S) ==
    {s \in [1..Cardinality(S) -> S] : Range(s) = S}

RECURSIVE Join(_)
Join(s) == IF s = <<>> THEN "" ELSE s[1] \o ";" \o Join(Tail(s))

\* dune.common.hashit.hashIt: a digest of its argument, taken collision free;
\* a list argument is digested in the order of its elements
hashIt(typeName) == "md5(" \o typeName \o ")"

hashItList(names) == "md5[" \o Join(names) \o "]"

\* --------------------------------------------- results of a handler's code
\* what the straight-line code of a handler ends in: a returned prebuilt
\* constructor, a raised exception, or a call of a generator's load
Ret(what) ==
    [t |-> "return", what |-> what, gen |-> "", includes |-> {}, typeName |-> "",
     typeHash |-> "", inTry |-> FALSE]

Raise(e) ==
    [t |-> "raise", what |-> e, gen |-> "", includes |-> {}, typeName |-> "",
     typeHash |-> "", inTry |-> FALSE]

GenLoad(gen, includes, typeName, typeHash) ==
    [t |-> "load", what |-> "", gen |-> gen, includes |-> includes, typeName |-> typeName,
     typeHash |-> typeHash, inTry |-> FALSE]

NoLoad == Ret("")

\* ----------------------------------------------------- the load wrappers
load(includes, typeName) ==
    GenLoad("BCRSMatrix", includes \cup {"dune/python/istl/bcrsmatrix.hh"}, typeName,
            "istlbcrsmatrix_" \o hashIt(typeName))

loadvec(includes, typeName) ==
    GenLoad("BlockVector",
            includes \cup {"dune/python/common/fvector.hh", "dune/python/istl/bvector.hh"},
            typeName, "istlbvector_" \o hashIt(typeName))

loadmatrixindexset(includes, typeName) ==
    GenLoad("MatrixIndexSet", includes \cup {"dune/python/istl/matrixindexset.hh"}, typeName,
            "matrixindexset_" \o hashIt(typeName))

\* ------------------------------------------------ operands of an operator
\* an object carrying the generator's cppTypeName and cppIncludes attributes
Obj(name, incs) == [isNone |-> FALSE, cppTypeName |-> name, cppIncludes |-> incs]

None == [isNone |-> TRUE, cppTypeName |-> "", cppIncludes |-> {}]

BCRSTypeName(r, c) ==
    "Dune::BCRSMatrix< Dune::FieldMatrix< double," \o ToString(r) \o "," \o ToString(c)
        \o " > >"

BlockVectorTypeName(blockSize) ==
    "Dune::BlockVector< Dune::FieldVector< double ," \o ToString(blockSize) \o " > >"

\* a matrix made by BCRSMatrix([2,2]); a vector made by BlockVector(2) and one
\* made by blockVector(size, 2): each carries the includes its load was given
Mats == { Obj(BCRSTypeName(2, 2), load({"dune/istl/bcrsmatrix.hh"}, "").includes) }

Vecs == { Obj(BlockVectorTypeName(2), loadvec({"dune/python/istl/bvector.hh"}, "").includes),
          Obj(BlockVectorTypeName(2), loadvec({"dune/istl/bvector.hh"}, "").includes) }

MatrixAdapterTypeName(matType, domType, ranType) ==
    "Dune::MatrixAdapter<" \o matType \o "," \o domType \o "," \o ranType \o ">"

\* the operators handed to getSolverFromFactory: matrix adapters over 2x2 and
\* 3x3 blocks, as matrixAdapter(mat, u) describes them
Ops == { Obj(MatrixAdapterTypeName(BCRSTypeName(k, k), BlockVectorTypeName(k),
                                   BlockVectorTypeName(k)),
             {"dune/istl/operators.hh"})
         : k \in {2, 3} }

\* ------------------------------------------------- the handlers' own code
\* BCRSMatrix, the except AttributeError branch
BCRSMatrixExcept(blockType) ==
    IF blockType.items = <<>>
    THEN Raise("TypeError")
    ELSE IF blockType.items[1] = blockType.items[2] /\ blockType.items[2] = 1
    THEN Ret("BCRSMatrix11")
    ELSE load({"dune/istl/bcrsmatrix.hh"},
              BCRSTypeName(blockType.items[1], blockType.items[2]))

\* BCRSMatrix, the try branch: reading cppTypeName raises AttributeError on a
\* list, and the load call is made inside the try
BCRSMatrixTry(blockType) ==
    IF blockType.hasName
    THEN [load({"dune/istl/bcrsmatrix.hh"},
               "Dune::BCRSMatrix<" \o blockType.cppTypeName \o " >")
          EXCEPT !.inTry = TRUE]
    ELSE BCRSMatrixExcept(blockType)

\* BlockVector and blockVector differ in the header they name
BlockVectorCode(blockSize, header) ==
    IF blockSize = 1
    THEN Ret("BlockVector1")
    ELSE loadvec({header}, BlockVectorTypeName(blockSize))

MatrixIndexSetCode ==
    loadmatrixindexset({"dune/istl/matrixindexset.hh"}, "Dune::MatrixIndexSet")

\* matrixAdapter: includes is a set, and "includes += v.cppIncludes" raises
\* TypeError (a set has no +=) whenever v is given
matrixAdapterCode(mat, u, v) ==
    LET matType == mat.cppTypeName
        domType == u.cppTypeName
        ranType == IF v.isNone THEN domType ELSE v.cppTypeName
        typeName == MatrixAdapterTypeName(matType, domType, ranType)
        includes == {"dune/istl/operators.hh"} \cup mat.cppIncludes \cup u.cppIncludes
    IN  IF ~v.isNone
        THEN Raise("TypeError")
        ELSE GenLoad("LinearOperator", includes, typeName,
                     "matrixadapter_" \o hashIt(typeName))

\* a key that leaves the includes out of the hash
SolverTypeHashNoIncludes(typeName, includes) ==
    "solverfactory_" \o hashItList(<<typeName>>)

\* getSolverFromFactory, the key: the includes are hashed in list order
SolverTypeHash(typeName, includes) ==
    "solverfactory_" \o hashItList(<<typeName>> \o includes)

\* order is the order in which the caller's set of includes is unpacked
getSolverFromFactoryCode(op, order) ==
    LET operatorType == op.cppTypeName
        typeName == "Dune::SolverFactory< " \o operatorType \o " >"
        includes == <<"dune/python/istl/solverfactory.hh">> \o order
    IN  GenLoad("SolverFactory", Range(includes), typeName,
                SolverTypeHash(typeName, includes))

\* ------------------------------------------------------------------ state
VARIABLES
    pc,        \* caller -> "idle", "load", "building", "waiting", "raised", "done"
    req,       \* caller -> the request it is executing ([fn |-> "none"] when idle)
    ld,        \* caller -> the generator load call of its request (NoLoad before one)
    out,       \* caller -> what the request returned or raised
    exc,       \* caller -> the exception load raised into the handler ("" when none)
    bfail,     \* caller -> the first build failure its request met ("" when none)
    nloads,    \* caller -> number of generator load calls made for its request
    cache,     \* build cache: typeHash -> index in log of the build that made the entry
    building,  \* typeHash values whose build is running
    log,       \* the builder's invocations, in order: [key, typeName, deps, status]
    ncalls     \* number of requests issued so far

vars == <<pc, req, ld, out, exc, bfail, nloads, cache, building, log, ncalls>>

NoReq == [fn |-> "none"]

NoOut == [kind |-> "none", what |-> "", art |-> 0, arg |-> ""]

Error(e) == [kind |-> "error", what |-> e, art |-> 0, arg |-> ""]

\* what a handler makes of the constructor or module it obtained: art is the
\* build that produced it, 0 for a prebuilt constructor
Completed(rq, what, art) ==
    CASE rq.fn = "BCRSMatrix" ->
            [kind |-> "constructor", what |-> what, art |-> art, arg |-> ""]
      [] rq.fn = "bcrsMatrix" ->
            [kind |-> "instance", what |-> what, art |-> art,
             arg |-> IF rq.size # 0 THEN ToString(rq.size) ELSE ""]
      [] rq.fn = "BlockVector" ->
            [kind |-> "constructor", what |-> what, art |-> art, arg |-> ""]
      [] rq.fn = "blockVector" ->
            [kind |-> "instance", what |-> what, art |-> art, arg |-> ToString(rq.size)]
      [] rq.fn = "MatrixIndexSet" ->
            [kind |-> "instance", what |-> what, art |-> art, arg |-> ""]
      [] rq.fn = "matrixAdapter" ->
            [kind |-> "operator", what |-> what, art |-> art, arg |-> rq.mat.cppTypeName]
      [] rq.fn = "getSolverFromFactory" ->
            [kind |-> "solver", what |-> what, art |-> art, arg |-> rq.config]

Init ==
    /\ pc = [c \in Callers |-> "idle"]
    /\ req = [c \in Callers |-> NoReq]
    /\ ld = [c \in Callers |-> NoLoad]
    /\ out = [c \in Callers |-> NoOut]
    /\ exc = [c \in Callers |-> ""]
    /\ bfail = [c \in Callers |-> ""]
    /\ nloads = [c \in Callers |-> 0]
    /\ cache = <<>>
    /\ building = {}
    /\ log = <<>>
    /\ ncalls = 0

\* caller c runs a handler's code for request rq up to its result r: a return,
\* a raise, or the call of load it now waits for
Run(c, rq, r) ==
    /\ req' = [req EXCEPT ![c] = rq]
    /\ exc' = [exc EXCEPT ![c] = ""]
    /\ IF r.t = "load"
       THEN /\ pc' = [pc EXCEPT ![c] = "load"]
            /\ ld' = [ld EXCEPT ![c] = r]
            /\ nloads' = [nloads EXCEPT ![c] = @ + 1]
            /\ out' = out
       ELSE /\ pc' = [pc EXCEPT ![c] = "done"]
            /\ out' = [out EXCEPT ![c] =
                          IF r.t = "raise" THEN Error(r.what) ELSE Completed(rq, r.what, 0)]
            /\ UNCHANGED <<ld, nloads>>

\* an idle caller issues one more request
Idle(c) ==
    /\ pc[c] = "idle"
    /\ ncalls < MaxCalls
    /\ ncalls' = ncalls + 1
    /\ UNCHANGED <<bfail, cache, building, log>>

\* --------------------------------------------------------- entry points
MatrixIndexSet(c) ==
    /\ Idle(c)
    /\ Run(c, [fn |-> "MatrixIndexSet"], MatrixIndexSetCode)

BCRSMatrix(c) ==
    \E blockType \in BlockTypes :
        /\ Idle(c)
        /\ Run(c, [fn |-> "BCRSMatrix", blockType |-> blockType], BCRSMatrixTry(blockType))

\* blockType is the keyword argument, [1,1] when the caller leaves it out
bcrsMatrix(c) ==
    \E size \in Sizes, given \in BOOLEAN, bt \in BlockLists :
        LET blockType == IF given THEN bt ELSE ListBlock(1, 1) IN
        /\ ~given => bt = ListBlock(1, 1)
        /\ Idle(c)
        /\ Run(c, [fn |-> "bcrsMatrix", size |-> size, given |-> given,
                   blockType |-> blockType],
               BCRSMatrixTry(blockType))

BlockVector(c) ==
    \E blockSize \in 1..MaxBlock :
        /\ Idle(c)
        /\ Run(c, [fn |-> "BlockVector", blockSize |-> blockSize],
               BlockVectorCode(blockSize, "dune/python/istl/bvector.hh"))

\* blockSize is 1 when the caller leaves it out
blockVector(c) ==
    \E size \in Sizes, given \in BOOLEAN, bs \in 1..MaxBlock :
        LET blockSize == IF given THEN bs ELSE 1 IN
        /\ ~given => bs = 1
        /\ Idle(c)
        /\ Run(c, [fn |-> "blockVector", size |-> size, given |-> given,
                   blockSize |-> blockSize],
               BlockVectorCode(blockSize, "dune/istl/bvector.hh"))

matrixAdapter(c) ==
    \E mat \in Mats, u \in Vecs, v \in Vecs \cup {None} :
        /\ Idle(c)
        /\ Run(c, [fn |-> "matrixAdapter", mat |-> mat, u |-> u, v |-> v],
               matrixAdapterCode(mat, u, v))

\* includes is the caller's set of custom includes ({} when left out); it is
\* unpacked in whatever order the set enumerates
getSolverFromFactory(c) ==
    \E op \in Ops, config \in Configs, includes \in SUBSET ExtraIncludes :
        \E order \in Enumerations(includes) :
            /\ Idle(c)
            /\ Run(c, [fn |-> "getSolverFromFactory", op |-> op, config |-> config,
                       includes |-> includes, order |-> order],
                   getSolverFromFactoryCode(op, order))

\* ------------------------------------- the generator's load: build cache
\* the build that is running for a key
Running(key) ==
    CHOOSE i \in DOMAIN log : log[i].key = key /\ log[i].status = "running"

\* load returns the module to c's handler, which finishes with it
Return(c, art) ==
    /\ pc' = [pc EXCEPT ![c] = "done"]
    /\ out' = [out EXCEPT ![c] = Completed(req[c], ld[c].typeName, art)]

\* the key has an entry: the artifact is returned without a build
LoadHit(c) ==
    /\ pc[c] = "load"
    /\ ld[c].typeHash \in DOMAIN cache
    /\ Return(c, cache[ld[c].typeHash])
    /\ UNCHANGED <<req, ld, exc, bfail, nloads, cache, building, log, ncalls>>

\* a genuine miss: c becomes the builder of the key and the external builder
\* is invoked with the descriptor, the dependency set and the key
LoadMiss(c) ==
    /\ pc[c] = "load"
    /\ ld[c].typeHash \notin DOMAIN cache
    /\ ld[c].typeHash \notin building
    /\ building' = building \cup {ld[c].typeHash}
    /\ log' = Append(log, [key |-> ld[c].typeHash, typeName |-> ld[c].typeName,
                           deps |-> ld[c].includes, status |-> "running"])
    /\ pc' = [pc EXCEPT ![c] = "building"]
    /\ UNCHANGED <<req, ld, out, exc, bfail, nloads, cache, ncalls>>

\* the key is being built by another caller: c suspends
LoadWait(c) ==
    /\ pc[c] = "load"
    /\ ld[c].typeHash \in building
    /\ pc' = [pc EXCEPT ![c] = "waiting"]
    /\ UNCHANGED <<req, ld, out, exc, bfail, nloads, cache, building, log, ncalls>>

\* the build completes: the entry is inserted and returned to the builder
BuildSucceed(c) ==
    /\ pc[c] = "building"
    /\ LET key == ld[c].typeHash
           i == Running(key)
       IN  /\ log' = [log EXCEPT ![i].status = "ok"]
           /\ cache' = cache @@ (key :> i)
           /\ building' = building \ {key}
           /\ Return(c, i)
    /\ UNCHANGED <<req, ld, exc, bfail, nloads, ncalls>>

\* a failing build that leaves its key in the cache
BuildFailMemoized(c, e) ==
    /\ pc[c] = "building"
    /\ LET key == ld[c].typeHash
           hit == {d \in Callers : d = c \/ (pc[d] = "waiting" /\ ld[d].typeHash = key)}
       IN  /\ log' = [log EXCEPT ![Running(key)].status = "failed"]
           /\ cache' = cache @@ (key :> Running(key))
           /\ building' = building \ {key}
           /\ pc' = [d \in Callers |-> IF d \in hit THEN "raised" ELSE pc[d]]
           /\ exc' = [d \in Callers |-> IF d \in hit THEN e ELSE exc[d]]
           /\ bfail' = [d \in Callers |-> IF d \in hit /\ bfail[d] = "" THEN e ELSE bfail[d]]
    /\ UNCHANGED <<req, ld, out, nloads, ncalls>>

\* the build fails with exception e: no entry is inserted, and the failure is
\* raised in the builder and in every caller suspended on the key
BuildFail(c, e) ==
    /\ pc[c] = "building"
    /\ LET key == ld[c].typeHash
           hit == {d \in Callers : d = c \/ (pc[d] = "waiting" /\ ld[d].typeHash = key)}
       IN  /\ log' = [log EXCEPT ![Running(key)].status = "failed"]
           /\ building' = building \ {key}
           /\ pc' = [d \in Callers |-> IF d \in hit THEN "raised" ELSE pc[d]]
           /\ exc' = [d \in Callers |-> IF d \in hit THEN e ELSE exc[d]]
           /\ bfail' = [d \in Callers |-> IF d \in hit /\ bfail[d] = "" THEN e ELSE bfail[d]]
    /\ UNCHANGED <<req, ld, out, nloads, cache, ncalls>>

BuildFails(c) ==
    \E e \in FailureKinds : BuildFail(c, e)

\* a suspended caller resumes with the entry the build inserted
WaitReturn(c) ==
    /\ pc[c] = "waiting"
    /\ ld[c].typeHash \in DOMAIN cache
    /\ Return(c, cache[ld[c].typeHash])
    /\ UNCHANGED <<req, ld, exc, bfail, nloads, cache, building, log, ncalls>>

\* ------------------------------------------ the handler after load raised
\* only BCRSMatrix (and bcrsMatrix through it) calls load inside a try;
\* its except AttributeError clause then runs, every other exception and
\* every other handler lets the exception through to the caller
LoadRaised(c) ==
    /\ pc[c] = "raised"
    /\ IF ld[c].inTry /\ exc[c] = "AttributeError"
       THEN Run(c, req[c], BCRSMatrixExcept(req[c].blockType))
       ELSE /\ pc' = [pc EXCEPT ![c] = "done"]
            /\ out' = [out EXCEPT ![c] = Error(exc[c])]
            /\ exc' = [exc EXCEPT ![c] = ""]
            /\ UNCHANGED <<req, ld, nloads>>
    /\ UNCHANGED <<bfail, cache, building, log, ncalls>>

\* the request is over; the caller may issue another one
Finish(c) ==
    /\ pc[c] = "done"
    /\ pc' = [pc EXCEPT ![c] = "idle"]
    /\ req' = [req EXCEPT ![c] = NoReq]
    /\ ld' = [ld EXCEPT ![c] = NoLoad]
    /\ out' = [out EXCEPT ![c] = NoOut]
    /\ bfail' = [bfail EXCEPT ![c] = ""]
    /\ nloads' = [nloads EXCEPT ![c] = 0]
    /\ UNCHANGED <<exc, cache, building, log, ncalls>>

\* the steps of a request once its handler has called load
Load(c) ==
    \/ LoadHit(c)
    \/ LoadMiss(c)
    \/ LoadWait(c)
    \/ BuildSucceed(c)
    \/ BuildFails(c)
    \/ WaitReturn(c)
    \/ LoadRaised(c)
    \/ Finish(c)

Next ==
    \E c \in Callers :
        \/ MatrixIndexSet(c)
        \/ BCRSMatrix(c)
        \/ bcrsMatrix(c)
        \/ BlockVector(c)
        \/ blockVector(c)
        \/ matrixAdapter(c)
        \/ getSolverFromFactory(c)
        \/ Load(c)

Spec == Init /\ [][Next]_vars

\* the callers request solvers only
NextSolver ==
    \E c \in Callers : getSolverFromFactory(c) \/ Load(c)

SpecSolver == Init /\ [][NextSolver]_vars

\* the callers request matrix constructors only
NextMatrix ==
    \E c \in Callers : BCRSMatrix(c) \/ Load(c)

SpecMatrix == Init /\ [][NextMatrix]_vars

\* ================================================================ claims
\* the request of caller c called load (its handler got past resolution)
Loads(c) == ld[c].t = "load"

\* the builds, running or completed, made for a descriptor and dependency set
BuildsOf(typeName, deps) ==
    {i \in DOMAIN log :
        log[i].typeName = typeName /\ log[i].deps = deps /\ log[i].status # "failed"}

IsSolver(c) == req[c].fn = "getSolverFromFactory"

IsMatrix(c) == req[c].fn \in {"BCRSMatrix", "bcrsMatrix"}

IsVector(c) == req[c].fn \in {"BlockVector", "blockVector"}

\* C1: at-most-one build.  Whenever two callers' requests carry the same
\* descriptor, the same dependency set and the same extra includes, at most one
\* build is made for them and both receive the same artifact.
C1_AtMostOneBuild ==
    \A c, d \in Callers :
        ( /\ c # d
          /\ Loads(c) /\ Loads(d)
          /\ req[c].fn = req[d].fn
          /\ ld[c].typeName = ld[d].typeName
          /\ ld[c].includes = ld[d].includes
          /\ IsSolver(c) => req[c].includes = req[d].includes )
        => /\ Cardinality(BuildsOf(ld[c].typeName, ld[c].includes)) <= 1
           /\ (out[c].art # 0 /\ out[d].art # 0) => out[c].art = out[d].art

\* C2: a matrix request whose block row or column count is not positive fails
\* with UnsupportedShape and never calls generator.load.
C2_NonPositiveShapeRejected ==
    \A c \in Callers :
        (IsMatrix(c) /\ (req[c].blockType.rows <= 0 \/ req[c].blockType.cols <= 0))
        => /\ nloads[c] = 0
           /\ pc[c] = "done" => out[c] = Error("UnsupportedShape")

\* C3: matrixAdapter(mat, u, v) with v given reaches the builder, with a
\* dependency set that contains the operator header and every dependency of
\* mat, u and v.
C3_DependencyUnion ==
    \A c \in Callers :
        (req[c].fn = "matrixAdapter" /\ ~req[c].v.isNone)
        => /\ Loads(c)
           /\ "dune/istl/operators.hh" \in ld[c].includes
           /\ req[c].mat.cppIncludes \subseteq ld[c].includes
           /\ req[c].u.cppIncludes \subseteq ld[c].includes
           /\ req[c].v.cppIncludes \subseteq ld[c].includes

\* C4: two solver requests for the same operator whose sets of extra includes
\* differ derive different keys, and a solver request is never served an
\* artifact that was built for another set of includes.
C4_KeySensitiveToExtra ==
    /\ \A c, d \in Callers :
          ( /\ IsSolver(c) /\ IsSolver(d)
            /\ req[c].op = req[d].op
            /\ req[c].includes # req[d].includes )
          => ld[c].typeHash # ld[d].typeHash
    /\ \A c \in Callers :
          (IsSolver(c) /\ out[c].kind = "solver")
          => /\ log[out[c].art].deps = ld[c].includes
             /\ log[out[c].art].typeName = ld[c].typeName

\* C4 happens: two callers hold solvers for the same operator and different
\* sets of extra includes
C4_Witness ==
    \E c, d \in Callers :
        /\ IsSolver(c) /\ IsSolver(d)
        /\ req[c].op = req[d].op
        /\ req[c].includes # req[d].includes
        /\ out[c].kind = "solver" /\ out[d].kind = "solver"

\* C5: the key of a solver request is the same for every order in which its
\* set of extra includes can be enumerated.
C5_KeyOrderIndependent ==
    \A c \in Callers :
        IsSolver(c)
        => \A o \in Enumerations(req[c].includes) :
              getSolverFromFactoryCode(req[c].op, o).typeHash = ld[c].typeHash

\* the requests that denote a 1x1 block of doubles
Denotes1x1(c) ==
    \/ IsMatrix(c) /\ req[c].blockType.rows = 1 /\ req[c].blockType.cols = 1
    \/ IsVector(c) /\ req[c].blockSize = 1

\* C6: every request that denotes a 1x1 block returns the prebuilt constructor
\* and never calls generator.load.
C6_FastPath ==
    \A c \in Callers :
        Denotes1x1(c)
        => /\ nloads[c] = 0
           /\ pc[c] = "done"
              => out[c].art = 0 /\ out[c].what \in {"BCRSMatrix11", "BlockVector1"}

\* C7: solver requests with the same operator and the same extra includes but
\* different configs derive the same descriptor and the same key, their factory
\* is built at most once, and the config reaches only SolverFactory.get.
C7_ConfigNotInKey ==
    /\ \A c, d \in Callers :
          ( /\ IsSolver(c) /\ IsSolver(d)
            /\ req[c].op = req[d].op
            /\ req[c].includes = req[d].includes
            /\ req[c].config # req[d].config )
          => /\ ld[c].typeName = ld[d].typeName
             /\ ld[c].typeHash = ld[d].typeHash
             /\ Cardinality(BuildsOf(ld[c].typeName, ld[c].includes)) <= 1
    /\ \A c \in Callers :
          (IsSolver(c) /\ out[c].kind = "solver") => out[c].arg = req[c].config

\* C8: a build failure reaches the caller as that failure: the handler calls
\* load only once for the request and the request ends in the builder's error.
C8_BuildErrorsPropagate ==
    \A c \in Callers :
        bfail[c] # ""
        => /\ nloads[c] <= 1
           /\ pc[c] = "done" => out[c] = Error(bfail[c])

\* C9: a failed build is not memoized.  The step in which a build fails leaves
\* the cache as it was, with no entry and no running build for the failed key,
\* and load returns an artifact only from a completed build of the same key.
C9_FailedBuildNotMemoized ==
    [][ \A c \in Callers :
          /\ (pc[c] = "building" /\ pc'[c] = "raised")
             => /\ cache' = cache
                /\ ld[c].typeHash \notin DOMAIN cache'
                /\ ld[c].typeHash \notin building'
          /\ (pc[c] \in {"load", "waiting", "building"} /\ pc'[c] = "done")
             => /\ ld[c].typeHash \in DOMAIN cache'
                /\ log'[cache'[ld[c].typeHash]].status = "ok"
                /\ log'[cache'[ld[c].typeHash]].key = ld[c].typeHash ]_vars

\* C9 happens: a key whose build failed was built again by a later request,
\* and another key holds its entry
C9_Witness ==
    \E i, j, k \in DOMAIN log :
        /\ i < j
        /\ log[i].key = log[j].key
        /\ log[i].status = "failed"
        /\ log[j].status = "ok"
        /\ log[k].key # log[i].key
        /\ log[k].key \in DOMAIN cache

\* what has been handed to the generator: the builder's invocations and the
\* load calls in flight
Handed ==
    {[key |-> log[i].key, typeName |-> log[i].typeName, deps |-> log[i].deps] :
        i \in DOMAIN log}
    \cup {[key |-> ld[c].typeHash, typeName |-> ld[c].typeName, deps |-> ld[c].includes] :
            c \in {d \in Callers : Loads(d)}}

\* C10: no over-collision.  Two requests with the same key hand over the same
\* descriptor and the same dependency set.
C10_NoOverCollision ==
    \A a, b \in Handed :
        a.key = b.key => a.typeName = b.typeName /\ a.deps = b.deps

====
